---------------------------- MODULE Spec2Model ----------------------------
(***************************************************************************)
(* Lateral path-tracking controllers: Pure Pursuit (pure_pursuit.py),      *)
(* Stanley (stanley.py) and the Hybrid controller that arbitrates between  *)
(* them (hybrid_controller.py).                                            *)
(*                                                                         *)
(* Number representation (the code computes in binary floating point; the  *)
(* model computes in decimal fixed point):                                 *)
(*   positions            integer decimetres (planar, z = 0)               *)
(*   yaw                  integer degrees, multiples of 90                 *)
(*   angles               milliradians                                     *)
(*   speed                integer m/s;  target speed integer km/h          *)
(*   lookahead, gain k    tenths                                           *)
(*   throttle, brake      tenths                                           *)
(*   steer, blend weight  thousandths                                      *)
(*   curvature, threshold, blend zone   thousandths of 1/m                 *)
(* Distances are compared through their squares (sqrt is monotone).        *)
(***************************************************************************)
EXTENDS Integers, Sequences, FiniteSets, TLC

(***************************************************************************)
(* Arithmetic helpers                                                      *)
(***************************************************************************)
Abs(a) == IF a < 0 THEN -a ELSE a

Min2(a, b) == IF a <= b THEN a ELSE b

Max2(a, b) == IF a >= b THEN a ELSE b

\* float division a / b (b > 0), rounded to the nearest unit, symmetric in sign
Quot(a, b) == IF a >= 0 THEN (2 * a + b) \div (2 * b)
              ELSE -((2 * (-a) + b) \div (2 * b))

\* np.clip(v, lo, hi) without the bounds applied (a missing normalisation)
ClipOmitted(v, lo, hi) == v

\* np.clip(v, lo, hi)
Clip(v, lo, hi) == IF v < lo THEN lo ELSE IF v > hi THEN hi ELSE v

\* pi in milliradians
PiMilli == 3142

HalfPiMilli == PiMilli \div 2

\* np.radians(deg), in milliradians
Radians(deg) == Quot(deg * PiMilli, 180)

\* np.cos / np.sin of a yaw given in degrees (right angles only)
CosDeg(deg) == CASE deg % 360 = 0   -> 1
                 [] deg % 360 = 90  -> 0
                 [] deg % 360 = 180 -> -1
                 [] deg % 360 = 270 -> 0

SinDeg(deg) == CASE deg % 360 = 0   -> 0
                 [] deg % 360 = 90  -> 1
                 [] deg % 360 = 180 -> 0
                 [] deg % 360 = 270 -> -1

\* arctan on [-1, 1]; argument in thousandths, result in milliradians
\* (x * (pi/4 + 0.273 * (1 - |x|)), exact at 0 and at +-1, odd, increasing)
ATanUnit(xm) ==
    Quot(xm * (1000 * (PiMilli \div 4) + 273 * (1000 - Abs(xm))), 1000000)

\* np.arctan(x), x in thousandths, result in milliradians within (-pi/2, pi/2)
ATanMilli(xm) ==
    IF Abs(xm) <= 1000 THEN ATanUnit(xm)
    ELSE IF xm > 0 THEN HalfPiMilli - ATanUnit(Quot(1000000, xm))
    ELSE -(HalfPiMilli - ATanUnit(Quot(1000000, -xm)))

\* np.arctan2(dy, dx), result in milliradians within [-pi, pi]
ATan2Milli(dy, dx) ==
    IF dx > 0 THEN ATanMilli(Quot(1000 * dy, dx))
    ELSE IF dx < 0 THEN
        IF dy >= 0 THEN PiMilli - ATanMilli(Quot(1000 * dy, -dx))
        ELSE -PiMilli + ATanMilli(Quot(1000 * (-dy), -dx))
    ELSE IF dy > 0 THEN HalfPiMilli
    ELSE IF dy < 0 THEN -HalfPiMilli
    ELSE 0

\* np.arctan2(np.sin(a), np.cos(a)) for a within [-2 pi, 2 pi]: the angle
\* brought into [-pi, pi]; a = -pi stays -pi and a = pi stays pi
WrapAngle(a) == IF a > PiMilli THEN a - 2 * PiMilli
                ELSE IF a < -PiMilli THEN a + 2 * PiMilli
                ELSE a

RECURSIVE SqrtSearch(_, _, _)
SqrtSearch(v, lo, hi) ==
    IF lo >= hi THEN lo
    ELSE LET mid == (lo + hi + 1) \div 2
         IN  IF mid * mid <= v THEN SqrtSearch(v, mid, hi)
             ELSE SqrtSearch(v, lo, mid - 1)

\* np.sqrt(dx**2 + dy**2) in centimetres, dx and dy in decimetres
SegmentLengthCm(dx, dy) ==
    SqrtSearch(100 * (dx * dx + dy * dy), 0, 10 * (Abs(dx) + Abs(dy)))


(***************************************************************************)
(* Data: a waypoint is [x, y, yaw], a vehicle is [x, y, yaw, speed]        *)
(* (its transform and the norm of its velocity), a path is a sequence of   *)
(* waypoints.  Sequences are 1-based; indices reported by the code are     *)
(* 0-based and are kept 0-based here (waypoints[i] is wps[i + 1]).         *)
(***************************************************************************)
\* Python's None, for a waypoint that was never assigned
None == [none |-> TRUE]

\* waypoints[i]
At(wps, i) == wps[i + 1]

\* carla.Location.distance, squared (square decimetres)
Dist2(loc, wp) == (loc.x - wp.x) * (loc.x - wp.x) + (loc.y - wp.y) * (loc.y - wp.y)

\* the position of a waypoint (waypoint.transform.location)
Location(wp) == [x |-> wp.x, y |-> wp.y]

\* float('inf') as the initial min_distance
Infinity == [inf |-> TRUE, d2 |-> 0]

\* distance <= min_distance (the scan with a non-strict comparison)
CloserOrEqual(d2, min_distance) == min_distance.inf \/ d2 <= min_distance.d2

\* distance < min_distance
CloserThan(d2, min_distance) == min_distance.inf \/ d2 < min_distance.d2

(***************************************************************************)
(* stanley.py                                                              *)
(***************************************************************************)
RECURSIVE StanleyScan(_, _, _, _)
StanleyScan(loc, wps, i, best) ==
    IF i >= Len(wps) THEN best
    ELSE LET distance == Dist2(loc, At(wps, i))
         IN  IF CloserThan(distance, best.min_distance)
             THEN StanleyScan(loc, wps, i + 1,
                     [min_distance |-> [inf |-> FALSE, d2 |-> distance],
                      closest_waypoint |-> At(wps, i),
                      closest_idx |-> i])
             ELSE StanleyScan(loc, wps, i + 1, best)

\* StanleyController.find_closest_waypoint: (closest_waypoint, closest_idx, min_distance)
find_closest_waypoint(loc, wps) ==
    StanleyScan(loc, wps, 0,
        [min_distance |-> Infinity, closest_waypoint |-> None, closest_idx |-> 0])

\* the component of the same vector along the heading instead of across it
LongitudinalError(vehicle, closest_waypoint) ==
    LET dx == closest_waypoint.x - vehicle.x
        dy == closest_waypoint.y - vehicle.y
    IN  dx * CosDeg(vehicle.yaw) + dy * SinDeg(vehicle.yaw)

\* StanleyController.compute_cross_track_error (decimetres)
compute_cross_track_error(vehicle, closest_waypoint) ==
    LET dx == closest_waypoint.x - vehicle.x
        dy == closest_waypoint.y - vehicle.y
    IN  (-dx) * SinDeg(vehicle.yaw) + dy * CosDeg(vehicle.yaw)

\* the heading error taken from the waypoint's stored heading in every case
HeadingErrorFromStored(vehicle, closest_waypoint, next_waypoint) ==
    WrapAngle(Radians(closest_waypoint.yaw) - Radians(vehicle.yaw))

\* StanleyController.compute_heading_error (milliradians); the caller has
\* checked that closest_waypoint is a waypoint
compute_heading_error(vehicle, closest_waypoint, next_waypoint) ==
    LET vehicle_yaw == Radians(vehicle.yaw)
        path_yaw == IF next_waypoint # None
                    THEN ATan2Milli(next_waypoint.y - closest_waypoint.y,
                                    next_waypoint.x - closest_waypoint.x)
                    ELSE Radians(closest_waypoint.yaw)
    IN  WrapAngle(path_yaw - vehicle_yaw)

\* np.radians(70), the steering angle that normalises to 1
MaxSteeringAngle == Radians(70)

\* "Get next waypoint for heading calculation": waypoints[closest_idx + 1],
\* or None past the end of the path
NextWaypoint(wps, closest_idx) ==
    IF closest_idx + 1 < Len(wps) THEN At(wps, closest_idx + 1) ELSE None

\* StanleyController.compute_steering: [err, steer]; with no waypoints the
\* heading computation dereferences None
StanleyComputeSteering(k, vehicle, vehicle_speed, wps) ==
    LET found == find_closest_waypoint(Location(vehicle), wps)
        closest_waypoint == found.closest_waypoint
        closest_idx == found.closest_idx
        next_waypoint == NextWaypoint(wps, closest_idx)
    IN  IF closest_waypoint = None /\ next_waypoint = None
        THEN [err |-> "AttributeError", raised_in |-> "closest_waypoint.transform", steer |-> 0]
        ELSE LET heading_error == compute_heading_error(vehicle, closest_waypoint, next_waypoint)
                 cross_track_error == compute_cross_track_error(vehicle, closest_waypoint)
                 speed == Max2(10 * vehicle_speed, 1)
                 \* k * cross_track_error / speed with k, speed in tenths and the
                 \* error in decimetres
                 cross_track_term == ATanMilli(Quot(100 * k * cross_track_error, speed))
                 steering_angle == heading_error + cross_track_term
             IN  [err |-> "none", raised_in |-> "",
                  steer |-> Clip(Quot(1000 * steering_angle, MaxSteeringAngle), -1000, 1000)]

\* the bang-bang speed control with <= in place of <
SpeedControlInclusive(speed, target_speed) ==
    IF 36 * speed <= 10 * target_speed
    THEN [throttle |-> 5, brake |-> 0]
    ELSE [throttle |-> 0, brake |-> 3]

\* "Simple speed control" of both run_step methods:
\* speed < target_speed / 3.6, throttle 0.5 / brake 0.3 in tenths
SpeedControl(speed, target_speed) ==
    IF 36 * speed < 10 * target_speed
    THEN [throttle |-> 5, brake |-> 0]
    ELSE [throttle |-> 0, brake |-> 3]

\* a carla.VehicleControl returned normally
Control(steer, throttle, brake) ==
    [err |-> "none", raised_in |-> "", steer |-> steer, nan |-> FALSE,
     throttle |-> throttle, brake |-> brake,
     hand_brake |-> FALSE, manual_gear_shift |-> FALSE]

\* an exception leaving run_step
Raised(err, raised_in) ==
    [err |-> err, raised_in |-> raised_in, steer |-> 0, nan |-> FALSE,
     throttle |-> 0, brake |-> 0,
     hand_brake |-> FALSE, manual_gear_shift |-> FALSE]

\* StanleyController.run_step; st is the controller [k, target_speed]
StanleyRunStep(st, vehicle, wps) ==
    LET vehicle_speed == vehicle.speed
        steering == StanleyComputeSteering(st.k, vehicle, vehicle_speed, wps)
        sc == SpeedControl(vehicle_speed, st.target_speed)
    IN  IF steering.err # "none" THEN Raised(steering.err, steering.raised_in)
        ELSE Control(steering.steer, sc.throttle, sc.brake)

(***************************************************************************)
(* pure_pursuit.py                                                         *)
(***************************************************************************)
RECURSIVE PPClosestScan(_, _, _, _)
PPClosestScan(loc, wps, i, best) ==
    IF i >= Len(wps) THEN best
    ELSE LET distance == Dist2(loc, At(wps, i))
         IN  IF CloserThan(distance, best.min_distance)
             THEN PPClosestScan(loc, wps, i + 1,
                     [min_distance |-> [inf |-> FALSE, d2 |-> distance],
                      closest_waypoint_idx |-> i])
             ELSE PPClosestScan(loc, wps, i + 1, best)

\* the closest-waypoint loop of find_lookahead_point
PPClosestIdx(loc, wps) ==
    PPClosestScan(loc, wps, 0,
        [min_distance |-> Infinity, closest_waypoint_idx |-> 0]).closest_waypoint_idx

\* number of waypoints the forward search may examine
LookaheadHorizon == 50

\* index offset of the fallback target
FallbackOffset == 30

\* distance >= self.lookahead_distance (both in decimetres, compared squared)
AtLeastLookahead(d2, lookahead_distance) ==
    d2 >= lookahead_distance * lookahead_distance

\* the forward loop of find_lookahead_point: the first index in [i, stop)
\* at lookahead distance or more, or -1 when the loop finishes
RECURSIVE ForwardSearch(_, _, _, _, _)
ForwardSearch(loc, wps, lookahead_distance, i, stop) ==
    IF i >= stop THEN -1
    ELSE IF AtLeastLookahead(Dist2(loc, At(wps, i)), lookahead_distance) THEN i
    ELSE ForwardSearch(loc, wps, lookahead_distance, i + 1, stop)

\* a forward search that runs to the end of the path
ForwardStopAtEnd(closest_waypoint_idx, n) == n

\* the end of range(closest_waypoint_idx, min(closest_waypoint_idx + 50, len(waypoints)))
ForwardStop(closest_waypoint_idx, n) == Min2(closest_waypoint_idx + LookaheadHorizon, n)

\* a fallback that answers None on an empty path ("or None if not found")
LastWaypointOrNone(wps) ==
    IF Len(wps) = 0 THEN [err |-> "none", raised_in |-> "", target |-> None]
    ELSE [err |-> "none", raised_in |-> "", target |-> Location(At(wps, Len(wps) - 1))]

\* a fallback that indexes the second waypoint, waypoints[1]: IndexError on
\* a path of one waypoint
SecondWaypointLocation(wps) ==
    IF Len(wps) < 2
    THEN [err |-> "IndexError", raised_in |-> "waypoints[1]", target |-> None]
    ELSE [err |-> "none", raised_in |-> "", target |-> Location(At(wps, 1))]

\* a fallback that gives up: no target ("or None if not found")
NoTargetFound(wps) == [err |-> "none", raised_in |-> "", target |-> None]

\* waypoints[-1].transform.location: IndexError on an empty list
LastWaypointLocation(wps) ==
    IF Len(wps) = 0
    THEN [err |-> "IndexError", raised_in |-> "waypoints[-1]", target |-> None]
    ELSE [err |-> "none", raised_in |-> "", target |-> Location(At(wps, Len(wps) - 1))]

\* PurePursuitController.find_lookahead_point: [err, raised_in, target]
find_lookahead_point(loc, wps, lookahead_distance) ==
    LET closest_waypoint_idx == PPClosestIdx(loc, wps)
        hit == ForwardSearch(loc, wps, lookahead_distance, closest_waypoint_idx,
                             ForwardStop(closest_waypoint_idx, Len(wps)))
    IN  IF hit >= 0
        THEN [err |-> "none", raised_in |-> "", target |-> Location(At(wps, hit))]
        ELSE IF closest_waypoint_idx + FallbackOffset < Len(wps)
        THEN [err |-> "none", raised_in |-> "",
              target |-> Location(At(wps, closest_waypoint_idx + FallbackOffset))]
        ELSE LastWaypointLocation(wps)

\* the guard with 0 in place of 0.01
BeyondZeroRadius(ld_squared) == ld_squared > 0

\* ld_squared > 0.01 (m^2), which is ld_squared > 1 in dm^2
BeyondDegenerateRadius(ld_squared) == ld_squared > 1

\* wheelbase 2.875 m, in millimetres
WheelbaseMilli == 2875

\* PurePursuitController.compute_steering (thousandths)
PPComputeSteering(vehicle, target_location) ==
    LET dx == target_location.x - vehicle.x
        dy == target_location.y - vehicle.y
        local_x == dx * CosDeg(vehicle.yaw) + dy * SinDeg(vehicle.yaw)
        local_y == (-dx) * SinDeg(vehicle.yaw) + dy * CosDeg(vehicle.yaw)
        ld_squared == local_x * local_x + local_y * local_y
        \* ld_squared > 0.01 m^2 is ld_squared > 1 dm^2; curvature * wheelbase
        \* = 2 * local_y / ld_squared * 2.875, in thousandths
        curvature_wb == IF BeyondDegenerateRadius(ld_squared)
                        THEN Quot(20 * local_y * WheelbaseMilli, ld_squared)
                        ELSE 0
        steering_angle == ATanMilli(curvature_wb)
    IN  Clip(Quot(1000 * steering_angle, MaxSteeringAngle), -1000, 1000)

\* PurePursuitController.run_step; pp is the controller
\* [lookahead_distance, target_speed]
PurePursuitRunStep(pp, vehicle, wps) ==
    LET found == find_lookahead_point(Location(vehicle), wps, pp.lookahead_distance)
    IN  IF found.err # "none" THEN Raised(found.err, found.raised_in)
        ELSE IF found.target = None THEN Control(0, 0, 10)
        ELSE LET steering == PPComputeSteering(vehicle, found.target)
                 sc == SpeedControl(vehicle.speed, pp.target_speed)
             IN  Control(steering, sc.throttle, sc.brake)

(***************************************************************************)
(* hybrid_controller.py                                                    *)
(***************************************************************************)
RECURSIVE HybridClosestScan(_, _, _, _)
HybridClosestScan(loc, wps, i, best) ==
    IF i >= Len(wps) THEN best
    ELSE LET distance == Dist2(loc, At(wps, i))
         IN  IF CloserThan(distance, best.min_distance)
             THEN HybridClosestScan(loc, wps, i + 1,
                     [min_distance |-> [inf |-> FALSE, d2 |-> distance],
                      closest_idx |-> i])
             ELSE HybridClosestScan(loc, wps, i + 1, best)

\* a scan that keeps the last of several equally near waypoints
LastClosestIdx(loc, wps) ==
    IF Len(wps) = 0 THEN 0
    ELSE CHOOSE i \in 0..(Len(wps) - 1) :
             /\ \A j \in 0..(Len(wps) - 1) : Dist2(loc, At(wps, i)) <= Dist2(loc, At(wps, j))
             /\ \A j \in (i + 1)..(Len(wps) - 1) :
                    Dist2(loc, At(wps, i)) < Dist2(loc, At(wps, j))

\* the closest-waypoint loop of estimate_path_curvature
HybridClosestIdx(loc, wps) ==
    HybridClosestScan(loc, wps, 0,
        [min_distance |-> Infinity, closest_idx |-> 0]).closest_idx

\* default of the parameter lookahead_points
LookaheadPoints == 10

\* headings[j]: np.arctan2 over np.diff of points j and j + 1 (0-based)
SegmentHeading(points, j) ==
    ATan2Milli(points[j + 2].y - points[j + 1].y, points[j + 2].x - points[j + 1].x)

\* the heading change without np.abs: signed, negative for a right turn
HeadingChangeSigned(points, j) ==
    WrapAngle(SegmentHeading(points, j + 1) - SegmentHeading(points, j))

\* |heading_change[j]| after the wrap of np.abs(np.diff(headings))[j]
HeadingChange(points, j) ==
    Abs(WrapAngle(Abs(SegmentHeading(points, j + 1) - SegmentHeading(points, j))))

\* distances[j]
SegmentDistance(points, j) ==
    SegmentLengthCm(points[j + 2].x - points[j + 1].x, points[j + 2].y - points[j + 1].y)

RECURSIVE SumDistances(_, _)
\* np.sum(distances) over distances[0 .. n - 1]
SumDistances(points, n) ==
    IF n <= 0 THEN 0 ELSE SumDistances(points, n - 1) + SegmentDistance(points, n - 1)

RECURSIVE SumHeadingChanges(_, _)
\* np.sum(np.abs(heading_change)) over heading_change[0 .. n - 1]
SumHeadingChanges(points, n) ==
    IF n <= 0 THEN 0 ELSE SumHeadingChanges(points, n - 1) + HeadingChange(points, n - 1)

\* HybridController.estimate_path_curvature: [value, numpy]; value in
\* thousandths of 1/m, numpy tells a np.float64 from the literal 0.0
estimate_path_curvature(loc, wps) ==
    LET closest_idx == HybridClosestIdx(loc, wps)
        end_idx == Min2(closest_idx + LookaheadPoints, Len(wps) - 1)
    IN  IF end_idx - closest_idx < 3 THEN [value |-> 0, numpy |-> FALSE]
        ELSE LET points == SubSeq(wps, closest_idx + 1, end_idx)
                 n == Len(points)
             IN  IF n < 3 THEN [value |-> 0, numpy |-> FALSE]
                 ELSE IF n - 1 > 1
                 THEN LET total_distance == SumDistances(points, n - 2)
                          turning == SumHeadingChanges(points, n - 2)
                      IN  IF total_distance > 10
                          THEN [value |-> Quot(100 * turning, total_distance),
                                numpy |-> TRUE]
                          ELSE [value |-> 0, numpy |-> FALSE]
                 ELSE [value |-> 0, numpy |-> FALSE]

\* a speed scaling that raises the weight: weight * (1.0 + 0.3 * speed_factor)
SpeedBoosted(weight, speed) ==
    LET speed_factor == Clip(Quot(1000 * speed, 15), 0, 1000)
    IN  Quot(weight * (1000 + Quot(3 * speed_factor, 10)), 1000)

\* the speed scaling of compute_blend_weight:
\* weight * (1.0 - 0.3 * np.clip(speed / 15.0, 0.0, 1.0))
SpeedScaled(weight, speed) ==
    LET speed_factor == Clip(Quot(1000 * speed, 15), 0, 1000)
    IN  Quot(weight * (1000 - Quot(3 * speed_factor, 10)), 1000)

\* a ramp that starts at the threshold instead of the lower band edge
BlendRampFromThreshold(h, c) ==
    Clip(Quot(1000 * (c - h.curvature_threshold), 2 * h.blend_zone), 0, 1000)

\* the linear interpolation of the blend zone (blend_zone > 0):
\* np.clip((curvature - (threshold - blend_zone)) / (2 * blend_zone), 0.0, 1.0)
BlendRamp(h, c) ==
    Clip(Quot(1000 * (c - (h.curvature_threshold - h.blend_zone)), 2 * h.blend_zone),
         0, 1000)

\* HybridController.compute_blend_weight: [err, nan, weight]; h is the
\* controller, curvature the result of estimate_path_curvature.  With
\* blend_zone = 0 the ramp divides by zero: a Python float raises
\* ZeroDivisionError, a np.float64 gives nan (0/0)
compute_blend_weight(h, curvature, speed) ==
    LET c == curvature.value
        base == IF c < h.curvature_threshold - h.blend_zone THEN 0
                ELSE IF c > h.curvature_threshold + h.blend_zone THEN 1000
                ELSE IF h.blend_zone = 0 THEN -1
                ELSE BlendRamp(h, c)
    IN  IF base < 0
        THEN IF curvature.numpy
             THEN [err |-> "none", nan |-> TRUE, weight |-> 0]
             ELSE [err |-> "ZeroDivisionError", nan |-> FALSE, weight |-> 0]
        ELSE [err |-> "none", nan |-> FALSE,
              weight |-> IF h.speed_adaptive THEN SpeedScaled(base, speed) ELSE base]

\* HybridController.adaptive_lookahead (tenths of a metre)
adaptive_lookahead(speed) == Min2(20 + speed * 3, 60)

\* the gain schedule with the boundaries 5 and 10 in the higher-gain interval
adaptive_stanley_gain_inclusive(speed) ==
    IF speed <= 5 THEN 10 ELSE IF speed <= 10 THEN 7 ELSE 5

\* HybridController.adaptive_stanley_gain (tenths)
adaptive_stanley_gain(speed) ==
    IF speed < 5 THEN 10 ELSE IF speed < 10 THEN 7 ELSE 5

\* the label with the boundaries 0.3 and 0.7 counted to the named trackers
BlendLabelInclusive(w) ==
    IF (~w.nan) /\ w.weight <= 300 THEN "Pure Pursuit (blended)"
    ELSE IF (~w.nan) /\ w.weight >= 700 THEN "Stanley (blended)"
    ELSE "Hybrid (50/50)"

\* the label chosen "for logging" at the end of the blending branch
BlendLabel(w) ==
    IF (~w.nan) /\ w.weight < 300 THEN "Pure Pursuit (blended)"
    ELSE IF (~w.nan) /\ w.weight > 700 THEN "Stanley (blended)"
    ELSE "Hybrid (50/50)"

\* the blend with the two weights exchanged
BlendedSteeringSwapped(weight, pp_steer, stanley_steer) ==
    Quot(weight * pp_steer + (1000 - weight) * stanley_steer, 1000)

\* the blended command taking Stanley's speed control
BlendedSpeedControlFromStanley(pp_control, stanley_control) ==
    [throttle |-> stanley_control.throttle, brake |-> stanley_control.brake]

\* "Use Pure Pursuit's speed control": throttle and brake of the blended command
BlendedSpeedControl(pp_control, stanley_control) ==
    [throttle |-> pp_control.throttle, brake |-> pp_control.brake]

\* (1 - weight) * pp_control.steer + weight * stanley_control.steer
BlendedSteering(weight, pp_steer, stanley_steer) ==
    Quot((1000 - weight) * pp_steer + weight * stanley_steer, 1000)

\* the curvature test of the switching branch with >= in place of >
SwitchingUsesStanleyInclusive(h, curvature) == curvature >= h.curvature_threshold

\* Mode 1: curvature > self.curvature_threshold
SwitchingUsesStanley(h, curvature) == curvature > h.curvature_threshold

\* the adaptive decision with hysteresis: Stanley, once active, is kept while
\* the curvature stays above the threshold
AdaptiveUsesStanleySticky(h, curvature, vehicle_speed) ==
    IF curvature > h.curvature_threshold + h.blend_zone THEN TRUE
    ELSE IF curvature > h.curvature_threshold
            /\ (vehicle_speed < 8 \/ h.active_controller = "Stanley") THEN TRUE
    ELSE FALSE

\* the decision of the adaptive branch without its speed condition
AdaptiveUsesStanleyAnySpeed(h, curvature, vehicle_speed) ==
    curvature > h.curvature_threshold

\* Mode 3: use_stanley
AdaptiveUsesStanley(h, curvature, vehicle_speed) ==
    IF curvature > h.curvature_threshold + h.blend_zone THEN TRUE
    ELSE IF curvature > h.curvature_threshold /\ vehicle_speed < 8 THEN TRUE
    ELSE FALSE

\* a dispatch that runs the blending branch for every unrecognised mode
ModeBranchBlendingDefault(mode) ==
    IF mode = "switching" THEN "switching"
    ELSE IF mode = "adaptive" THEN "adaptive"
    ELSE "blending"

\* the dispatch of run_step: if mode == 'switching', elif mode == 'blending',
\* else (commented "mode == 'adaptive'")
ModeBranch(mode) ==
    IF mode = "switching" THEN "switching"
    ELSE IF mode = "blending" THEN "blending"
    ELSE "adaptive"

\* a switching branch that also records a weight, as the adaptive branch does
SwitchingRecordWeighted(h, label) ==
    [h EXCEPT !.active_controller = label,
              !.blend_weight = IF label = "Stanley" THEN 1000 ELSE 0]

\* what the switching branch records: self.active_controller, nothing else
SwitchingRecord(h, label) == [h EXCEPT !.active_controller = label]

\* the trackers run before the scheduling step: they read the parameters the
\* controller held when the tick began
TrackersBeforeScheduling(entered, scheduled) == entered

\* the statement order of run_step: the scheduling assignments come before
\* every tracker call, so the trackers read the scheduled parameters
TrackersAfterScheduling(entered, scheduled) == scheduled

\* HybridController.run_step: [h, control], the controller after the call
\* and the command returned (or the exception raised)
HybridRunStep(h, vehicle, wps) ==
    LET vehicle_speed == vehicle.speed
        curvature == estimate_path_curvature(Location(vehicle), wps)
        h1 == [h EXCEPT !.current_curvature = curvature.value]
        h2 == IF h1.speed_adaptive
              THEN [h1 EXCEPT !.pure_pursuit.lookahead_distance = adaptive_lookahead(vehicle_speed),
                              !.stanley.k = adaptive_stanley_gain(vehicle_speed)]
              ELSE h1
        trackers == TrackersAfterScheduling(h1, h2)
        pp_control == PurePursuitRunStep(trackers.pure_pursuit, vehicle, wps)
        stanley_control == StanleyRunStep(trackers.stanley, vehicle, wps)
    IN  IF ModeBranch(h2.mode) = "switching"
        THEN IF SwitchingUsesStanley(h2, curvature.value)
             THEN [h |-> SwitchingRecord(h2, "Stanley"), control |-> stanley_control]
             ELSE [h |-> SwitchingRecord(h2, "Pure Pursuit"), control |-> pp_control]
        ELSE IF ModeBranch(h2.mode) = "blending"
        THEN IF pp_control.err # "none" THEN [h |-> h2, control |-> pp_control]
             ELSE IF stanley_control.err # "none" THEN [h |-> h2, control |-> stanley_control]
             ELSE LET w == compute_blend_weight(h2, curvature, vehicle_speed)
                  IN  IF w.err # "none"
                      THEN [h |-> h2, control |-> Raised(w.err, "/ (2 * self.blend_zone)")]
                      ELSE [h |-> [h2 EXCEPT !.blend_weight = w.weight,
                                             !.blend_weight_nan = w.nan,
                                             !.active_controller = BlendLabel(w)],
                            control |->
                              [Control(Clip(BlendedSteering(w.weight, pp_control.steer,
                                                            stanley_control.steer),
                                            -1000, 1000),
                                       BlendedSpeedControl(pp_control, stanley_control).throttle,
                                       BlendedSpeedControl(pp_control, stanley_control).brake)
                               EXCEPT !.nan = w.nan]]
        ELSE IF AdaptiveUsesStanley(h2, curvature.value, vehicle_speed)
             THEN [h |-> [h2 EXCEPT !.active_controller = "Stanley",
                                    !.blend_weight = 1000, !.blend_weight_nan = FALSE],
                   control |-> stanley_control]
             ELSE [h |-> [h2 EXCEPT !.active_controller = "Pure Pursuit",
                                    !.blend_weight = 0, !.blend_weight_nan = FALSE],
                   control |-> pp_control]

\* HybridController.get_controller_info
get_controller_info(h) ==
    [active_controller |-> h.active_controller,
     blend_weight |-> h.blend_weight,
     curvature |-> h.current_curvature,
     pp_lookahead |-> h.pure_pursuit.lookahead_distance,
     stanley_k |-> h.stanley.k]

(***************************************************************************)
(* Constructors                                                            *)
(***************************************************************************)
\* target_speed set by both tracker constructors (km/h)
DefaultTargetSpeed == 30

\* PurePursuitController.__init__
PurePursuitController(lookahead_distance) ==
    [lookahead_distance |-> lookahead_distance, target_speed |-> DefaultTargetSpeed]

\* StanleyController.__init__
StanleyController(k) == [k |-> k, target_speed |-> DefaultTargetSpeed]

\* a constructor that leaves the speed scheduling off
HybridControllerNotAdaptive(pp_lookahead, stanley_k, curvature_threshold, blend_zone, mode) ==
    [pure_pursuit |-> PurePursuitController(pp_lookahead),
     stanley |-> StanleyController(stanley_k),
     curvature_threshold |-> curvature_threshold,
     blend_zone |-> blend_zone,
     mode |-> mode,
     speed_adaptive |-> FALSE,
     active_controller |-> "Hybrid",
     blend_weight |-> 500,
     blend_weight_nan |-> FALSE,
     current_curvature |-> 0]

\* HybridController.__init__
HybridController(pp_lookahead, stanley_k, curvature_threshold, blend_zone, mode) ==
    [pure_pursuit |-> PurePursuitController(pp_lookahead),
     stanley |-> StanleyController(stanley_k),
     curvature_threshold |-> curvature_threshold,
     blend_zone |-> blend_zone,
     mode |-> mode,
     speed_adaptive |-> TRUE,
     active_controller |-> "Hybrid",
     blend_weight |-> 500,
     blend_weight_nan |-> FALSE,
     current_curvature |-> 0]

(***************************************************************************)
(* State                                                                   *)
(***************************************************************************)
VARIABLES
    waypoints,      \* the path handed to every call (fixed during an episode)
    vehicle,        \* the CARLA vehicle: transform and speed
    pure_pursuit,   \* a PurePursuitController used on its own
    stanley,        \* a StanleyController used on its own
    hybrid,         \* a HybridController, with its two inner controllers
    control,        \* what the last run_step returned or raised, and whose it was
    probe           \* what the last direct call of a search method returned

vars == <<waypoints, vehicle, pure_pursuit, stanley, hybrid, control, probe>>

\* the result of a run_step, tagged with the controller that was called
Returned(by, c) ==
    [by |-> by, err |-> c.err, raised_in |-> c.raised_in, steer |-> c.steer,
     nan |-> c.nan, throttle |-> c.throttle, brake |-> c.brake,
     hand_brake |-> c.hand_brake, manual_gear_shift |-> c.manual_gear_shift]

NoControl == Returned("none", Raised("none", ""))

NoProbe == [of |-> "none", err |-> "none", result |-> None]

(***************************************************************************)
(* Inputs                                                                  *)
(***************************************************************************)
\* distance between generated waypoints: 2.0 m, in decimetres
Spacing == 20

\* longest lane path
MaxLen == 5

\* largest lateral slope of a ramp path, decimetres per waypoint
MaxOffset == 6

\* largest lateral offset of a waypoint of a lane path, decimetres
MaxLateral == 1

\* largest vehicle speed, m/s
MaxSpeed == 16

\* lane waypoint i (0-based) at lateral offset y
LaneWaypoint(i, y) == [x |-> Spacing * i, y |-> y, yaw |-> 0]

\* a lane of n waypoints that runs straight for one segment and then
\* drifts sideways by o decimetres per waypoint
Ramp(n, o) == [i \in 1..n |-> LaneWaypoint(i - 1, IF i <= 2 THEN 0 ELSE o * (i - 2))]

RampPaths == {Ramp(n, o) : n \in 0..MaxLen, o \in 0..MaxOffset}

\* every lane of up to n waypoints with lateral offsets 0..MaxLateral
LanePaths(n) ==
    UNION {{[i \in 1..m |-> LaneWaypoint(i - 1, ys[i])] : ys \in [1..m -> 0..MaxLateral]}
           : m \in 0..n}

Speeds == 0..MaxSpeed

Yaws == {0, 90, 180, -90}

Vehicle(x, y, yaw, speed) == [x |-> x, y |-> y, yaw |-> yaw, speed |-> speed]

Modes == {"switching", "blending", "adaptive"}

\* defaults of HybridController.__init__: curvature_threshold 0.05, blend_zone 0.02
DefaultThreshold == 50

DefaultBlendZone == 20

\* curvature thresholds 0.046, 0.05 and 0.052: with the blend zone 0.02 the
\* ramp lanes put a curvature on the threshold and on either band edge
Thresholds == {DefaultThreshold - 4, DefaultThreshold, DefaultThreshold + 2}

BlendZones == {DefaultBlendZone}

\* target speeds, km/h: the default and 36 km/h = 10 m/s
TargetSpeeds == {DefaultTargetSpeed, 36}

\* controller.target_speed = t, assigned after construction
WithTargetSpeed(c, t) == [c EXCEPT !.target_speed = t]

\* hybrid.pure_pursuit.target_speed = tp; hybrid.stanley.target_speed = ts
WithTargetSpeeds(h, tp, ts) ==
    [h EXCEPT !.pure_pursuit.target_speed = tp, !.stanley.target_speed = ts]

(***************************************************************************)
(* Operations                                                              *)
(***************************************************************************)
\* controller.run_step(vehicle, waypoints) on the stand-alone Pure Pursuit
PurePursuitStep ==
    /\ control' = Returned("pure_pursuit",
                           PurePursuitRunStep(pure_pursuit, vehicle, waypoints))
    /\ UNCHANGED <<waypoints, vehicle, pure_pursuit, stanley, hybrid, probe>>

\* controller.run_step(vehicle, waypoints) on the stand-alone Stanley
StanleyStep ==
    /\ control' = Returned("stanley", StanleyRunStep(stanley, vehicle, waypoints))
    /\ UNCHANGED <<waypoints, vehicle, pure_pursuit, stanley, hybrid, probe>>

\* controller.run_step(vehicle, waypoints) on the hybrid controller
HybridStep ==
    LET r == HybridRunStep(hybrid, vehicle, waypoints)
    IN  /\ hybrid' = r.h
        /\ control' = Returned("hybrid", r.control)
        /\ UNCHANGED <<waypoints, vehicle, pure_pursuit, stanley, probe>>

\* stanley.find_closest_waypoint(vehicle_location, waypoints), called directly
FindClosestWaypointCall ==
    /\ probe' = [of |-> "find_closest_waypoint", err |-> "none",
                 result |-> find_closest_waypoint(Location(vehicle), waypoints)]
    /\ UNCHANGED <<waypoints, vehicle, pure_pursuit, stanley, hybrid, control>>

\* pure_pursuit.find_lookahead_point(vehicle_location, vehicle_transform,
\* waypoints), called directly
FindLookaheadPointCall ==
    /\ probe' = LET r == find_lookahead_point(Location(vehicle), waypoints,
                                               pure_pursuit.lookahead_distance)
                 IN  [of |-> "find_lookahead_point", err |-> r.err, result |-> r]
    /\ UNCHANGED <<waypoints, vehicle, pure_pursuit, stanley, hybrid, control>>

\* stanley.compute_heading_error(vehicle_transform, closest_waypoint,
\* next_waypoint), called as compute_steering calls it: with the closest
\* waypoint and the one after it
ComputeHeadingErrorCall ==
    /\ probe' = LET found == find_closest_waypoint(Location(vehicle), waypoints)
                     next_waypoint == NextWaypoint(waypoints, found.closest_idx)
                 IN  IF found.closest_waypoint = None
                     THEN [of |-> "compute_heading_error", err |-> "AttributeError",
                           result |-> None]
                     ELSE [of |-> "compute_heading_error", err |-> "none",
                           result |-> [closest_idx |-> found.closest_idx,
                                       heading_error |->
                                           compute_heading_error(vehicle, found.closest_waypoint,
                                                                 next_waypoint)]]
    /\ UNCHANGED <<waypoints, vehicle, pure_pursuit, stanley, hybrid, control>>

\* the state after construction, over given sets of inputs
InitOver(paths, vehicles, pps, sts, hybrids) ==
    /\ waypoints \in paths
    /\ vehicle \in vehicles
    /\ pure_pursuit \in pps
    /\ stanley \in sts
    /\ hybrid \in hybrids
    /\ control = NoControl
    /\ probe = NoProbe

(***************************************************************************)
(* Spec: the three controllers ticking on ramp lanes at every speed, the   *)
(* hybrid controller in every mode and with every threshold                *)
(***************************************************************************)
Init ==
    InitOver(RampPaths,
             {Vehicle(0, 0, 0, s) : s \in Speeds},
             {PurePursuitController(30)},
             {StanleyController(10)},
             {HybridController(30, 5, t, z, m) : t \in Thresholds, z \in BlendZones, m \in Modes})

Next == PurePursuitStep \/ StanleyStep \/ HybridStep

Spec == Init /\ [][Next]_vars

(***************************************************************************)
(* SpecGeometry: the three controllers on every short lane, from vehicle   *)
(* poses on, beside and across the lane                                    *)
(***************************************************************************)
\* speeds that schedule a short (2.0 m), a medium (3.5 m) and a long (5.6 m)
\* lookahead
GeometrySpeeds == {0, 5, 12}

GeometryVehicles ==
    {Vehicle(x, y, yaw, s) : x \in {0, Spacing \div 2}, y \in {0, -(Spacing \div 2)},
                             yaw \in Yaws, s \in GeometrySpeeds}

InitGeometry ==
    InitOver(LanePaths(MaxLen - 1),
             GeometryVehicles,
             {PurePursuitController(30)},
             {StanleyController(10)},
             {HybridController(30, 5, DefaultThreshold, DefaultBlendZone, m) : m \in Modes})

SpecGeometry == InitGeometry /\ [][Next]_vars

(***************************************************************************)
(* SpecSpeedControl: the three controllers at every speed, with every      *)
(* combination of target speeds                                            *)
(***************************************************************************)
InitSpeedControl ==
    InitOver({Ramp(MaxLen, o) : o \in 0..MaxOffset},
             {Vehicle(0, 0, 0, s) : s \in Speeds},
             {WithTargetSpeed(PurePursuitController(30), t) : t \in TargetSpeeds},
             {WithTargetSpeed(StanleyController(10), t) : t \in TargetSpeeds},
             {WithTargetSpeeds(HybridController(30, 5, DefaultThreshold, DefaultBlendZone, m),
                               tp, ts)
                : m \in Modes, tp \in TargetSpeeds, ts \in TargetSpeeds})

SpecSpeedControl == InitSpeedControl /\ [][Next]_vars

(***************************************************************************)
(* SpecLocator: the two search methods on long paths, given as runs of     *)
(* repeated waypoints, so that the horizon and the fallback offset matter  *)
(***************************************************************************)
\* most runs of a long path
MaxRuns == 3

\* farthest waypoint of a long path, in spacings along the lane
MaxReach == 2

LocatorWaypoints ==
    {[x |-> Spacing * i, y |-> 0, yaw |-> 0] : i \in -1..MaxReach}

RunLengths == {1, FallbackOffset, LookaheadHorizon}

\* n copies of waypoint wp
Repeat(wp, n) == [i \in 1..n |-> wp]

\* the path points with its k-th waypoint repeated n times
Stretch(points, k, n) ==
    SubSeq(points, 1, k - 1) \o Repeat(points[k], n) \o SubSeq(points, k + 1, Len(points))

LongPaths ==
    {<<>>} \cup UNION {{Stretch(points, k, n) :
                           points \in [1..r -> LocatorWaypoints], k \in 1..r, n \in RunLengths} :
                       r \in 1..MaxRuns}

\* lookahead distances of the experiments: 2.0, 3.0 and 5.0 m
LookaheadDistances == {20, 30, 50}

InitLocator ==
    InitOver(LongPaths,
             {Vehicle(0, 0, 0, 0)},
             {PurePursuitController(l) : l \in LookaheadDistances},
             {StanleyController(10)},
             {HybridController(30, 5, DefaultThreshold, DefaultBlendZone, "adaptive")})

NextLocator == FindClosestWaypointCall \/ FindLookaheadPointCall

SpecLocator == InitLocator /\ [][NextLocator]_vars

(***************************************************************************)
(* Properties                                                              *)
(***************************************************************************)
\* a run_step has returned a command (it did not raise)
Commanded == control.by # "none" /\ control.err = "none"

\* the smallest index whose waypoint is at the minimum distance from loc
NearestIndex(loc, wps) ==
    LET ds == {Dist2(loc, At(wps, j)) : j \in 0..(Len(wps) - 1)}
        least == CHOOSE d \in ds : \A e \in ds : d <= e
    IN  CHOOSE i \in 0..(Len(wps) - 1) :
            /\ Dist2(loc, At(wps, i)) = least
            /\ \A j \in 0..(i - 1) : Dist2(loc, At(wps, j)) # least

C4_NearestIsFirstMinimum ==
    (probe.of = "find_closest_waypoint" /\ Len(waypoints) > 0)
        => LET r == probe.result
               loc == Location(vehicle)
               n == Len(waypoints)
           IN  /\ probe.err = "none"
               /\ r.closest_idx \in 0..(n - 1)
               /\ \A j \in 0..(n - 1) :
                      Dist2(loc, At(waypoints, j)) >= Dist2(loc, At(waypoints, r.closest_idx))
               /\ \A j \in 0..(r.closest_idx - 1) :
                      Dist2(loc, At(waypoints, j)) > Dist2(loc, At(waypoints, r.closest_idx))
               /\ r.closest_waypoint = At(waypoints, r.closest_idx)
               /\ ~r.min_distance.inf
               /\ r.min_distance.d2 = Dist2(loc, At(waypoints, r.closest_idx))
               /\ PPClosestIdx(loc, waypoints) = r.closest_idx

\* C4 witness: a later waypoint ties with the one returned, which is not the
\* first of the path
C4_Witness ==
    /\ probe.of = "find_closest_waypoint" /\ Len(waypoints) > 0
    /\ probe.result.closest_idx > 0
    /\ \E j \in (probe.result.closest_idx + 1)..(Len(waypoints) - 1) :
           /\ Dist2(Location(vehicle), At(waypoints, j)) = probe.result.min_distance.d2
           /\ At(waypoints, j) # probe.result.closest_waypoint

\* the waypoints of the horizon [nearest, min(nearest + 50, len) - 1] at the
\* lookahead distance or more
HorizonHits(loc, wps, lookahead_distance) ==
    LET n == NearestIndex(loc, wps)
    IN  {i \in n..(Min2(n + 50, Len(wps)) - 1) :
            Dist2(loc, At(wps, i)) >= lookahead_distance * lookahead_distance}

TargetSpeedUsed ==
    CASE control.by = "pure_pursuit" -> pure_pursuit.target_speed
      [] control.by = "stanley" -> stanley.target_speed
      [] OTHER -> IF hybrid.mode # "blending" /\ hybrid.active_controller = "Stanley"
                  THEN hybrid.stanley.target_speed
                  ELSE hybrid.pure_pursuit.target_speed

\* C2: every command returned has throttle 0.5 and brake 0 when
\* speed < target/3.6 and throttle 0 and brake 0.3 otherwise; never both
\* nonzero, both within [0, 1], hand_brake and manual_gear_shift false
C2_BangBang ==
    Commanded =>
        /\ (18 * vehicle.speed < 5 * TargetSpeedUsed
               => control.throttle = 5 /\ control.brake = 0)
        /\ (18 * vehicle.speed >= 5 * TargetSpeedUsed
               => control.throttle = 0 /\ control.brake = 3)
        /\ ~(control.throttle # 0 /\ control.brake # 0)
        /\ control.throttle \in 0..10 /\ control.brake \in 0..10
        /\ ~control.hand_brake /\ ~control.manual_gear_shift

\* C2 witness: the hybrid controller returned a command at a speed exactly
\* equal to target/3.6 of the tracker it selected
C2_Witness ==
    /\ Commanded /\ control.by = "hybrid"
    /\ 18 * vehicle.speed = 5 * TargetSpeedUsed
    /\ control.brake = 3

\* the label of an error signalled by the nearest-waypoint search itself
NearestSearch == "nearest-waypoint search"

\* C3 as stated: on an empty path run_step raises the error that the
\* nearest-waypoint search signalled
C3_NearestSearchSignals ==
    (waypoints = <<>> /\ control.by # "none")
        => (control.err # "none" /\ control.raised_in = NearestSearch)

\* what run_step does on an empty path: the nearest-waypoint search completes (index
\* 0, no waypoint, infinite distance) and run_step nevertheless raises, from
\* the lookahead fallback waypoints[-1] (IndexError) or from the heading
\* computation on the missing waypoint (AttributeError): no command is returned
C3_EmptyPathRaises ==
    (waypoints = <<>> /\ control.by # "none")
        => /\ find_closest_waypoint(Location(vehicle), waypoints) =
                 [min_distance |-> Infinity, closest_waypoint |-> None, closest_idx |-> 0]
           /\ IF control.by = "stanley"
              THEN control.err = "AttributeError"
                   /\ control.raised_in = "closest_waypoint.transform"
              ELSE control.err = "IndexError" /\ control.raised_in = "waypoints[-1]"

\* C3 witness: the blending mode was run on an empty path and raised
C3_Witness ==
    /\ waypoints = <<>> /\ control.by = "hybrid" /\ hybrid.mode = "blending"
    /\ control.err = "IndexError"

\* the curvature estimated in a tick on the current vehicle and path
TickCurvature == estimate_path_curvature(Location(vehicle), waypoints).value

\* the commands of the two inner trackers, with the parameters the hybrid
\* controller holds after the tick
InnerPurePursuit == PurePursuitRunStep(hybrid.pure_pursuit, vehicle, waypoints)

InnerStanley == StanleyRunStep(hybrid.stanley, vehicle, waypoints)

HybridTicked(mode) == control.by = "hybrid" /\ hybrid.mode = mode

\* C6: a switching tick returns Stanley's command and records "Stanley" when
\* the curvature is strictly above the threshold, and otherwise (equality
\* included) returns Pure Pursuit's command and records "Pure Pursuit"
C6_Switching ==
    HybridTicked("switching") =>
        IF TickCurvature > hybrid.curvature_threshold
        THEN /\ hybrid.active_controller = "Stanley"
             /\ control = Returned("hybrid", InnerStanley)
        ELSE /\ hybrid.active_controller = "Pure Pursuit"
             /\ control = Returned("hybrid", InnerPurePursuit)

\* C6 witness: a switching tick at a curvature equal to the threshold chose
\* Pure Pursuit, whose command differs from Stanley's
C6_Witness ==
    /\ HybridTicked("switching") /\ Commanded
    /\ TickCurvature = hybrid.curvature_threshold
    /\ hybrid.active_controller = "Pure Pursuit"
    /\ InnerPurePursuit.steer # InnerStanley.steer

\* C7: an adaptive tick uses Stanley exactly when curvature > threshold +
\* blend zone, or curvature > threshold and speed < 8; it records the blend
\* weight 1.0 for Stanley and 0.0 for Pure Pursuit and returns the selected
\* tracker's command unchanged
C7_Adaptive ==
    HybridTicked("adaptive") =>
        IF \/ TickCurvature > hybrid.curvature_threshold + hybrid.blend_zone
           \/ (TickCurvature > hybrid.curvature_threshold /\ vehicle.speed < 8)
        THEN /\ hybrid.active_controller = "Stanley"
             /\ hybrid.blend_weight = 1000
             /\ control = Returned("hybrid", InnerStanley)
        ELSE /\ hybrid.active_controller = "Pure Pursuit"
             /\ hybrid.blend_weight = 0
             /\ control = Returned("hybrid", InnerPurePursuit)

\* C7 witness: an adaptive tick at speed exactly 8 inside the upper half of
\* the band chose Pure Pursuit, whose steer differs from Stanley's
C7_Witness ==
    /\ HybridTicked("adaptive") /\ Commanded
    /\ vehicle.speed = 8
    /\ TickCurvature > hybrid.curvature_threshold
    /\ TickCurvature <= hybrid.curvature_threshold + hybrid.blend_zone
    /\ hybrid.active_controller = "Pure Pursuit" /\ hybrid.blend_weight = 0
    /\ InnerPurePursuit.steer # InnerStanley.steer

\* the blend weight a tick of the current controller at the current speed
\* would use at curvature c
WeightAt(c) == compute_blend_weight(hybrid, [value |-> c, numpy |-> TRUE], vehicle.speed).weight

BandLow == hybrid.curvature_threshold - hybrid.blend_zone

BandHigh == hybrid.curvature_threshold + hybrid.blend_zone

SpeedFactor(speed) == 1000 - 20 * Min2(speed, 15)

BaseWeight ==
    compute_blend_weight([hybrid EXCEPT !.speed_adaptive = FALSE],
                         [value |-> TickCurvature, numpy |-> TRUE], vehicle.speed).weight

\* C9: with speed-adaptive enabled the weight recorded by a blending tick is
\* the curvature-based weight times 1 - 0.3 * clip(speed/15, 0, 1), which
\* does not increase with speed and is 0.7 from speed 15 on, and the steer
\* returned is clip((1 - w) * ppSteer + w * stanleySteer, -1, 1)
C9_SpeedScaledBlend ==
    (HybridTicked("blending") /\ Commanded /\ hybrid.speed_adaptive
                              /\ hybrid.blend_zone > 0) =>
        LET w == hybrid.blend_weight
            blended == (1000 - w) * InnerPurePursuit.steer + w * InnerStanley.steer
        IN  /\ w = Quot(BaseWeight * SpeedFactor(vehicle.speed), 1000)
            /\ (vehicle.speed >= 15 => w = Quot(7 * BaseWeight, 10))
            /\ \A s \in 0..MaxSpeed :
                   /\ s <= vehicle.speed => WeightAt(TickCurvature) <=
                         compute_blend_weight(hybrid, [value |-> TickCurvature, numpy |-> TRUE], s).weight
                   /\ s >= vehicle.speed => WeightAt(TickCurvature) >=
                         compute_blend_weight(hybrid, [value |-> TickCurvature, numpy |-> TRUE], s).weight
            /\ control.steer = Max2(-1000, Min2(1000, Quot(blended, 1000)))

\* C9 witness: a blending tick at speed 15 or more with a weight strictly
\* between 0 and 1 and a steer that is neither tracker's
C9_Witness ==
    /\ HybridTicked("blending") /\ Commanded
    /\ vehicle.speed >= 15
    /\ hybrid.blend_weight > 0 /\ hybrid.blend_weight < 700
    /\ control.steer # InnerPurePursuit.steer
    /\ control.steer # InnerStanley.steer

\* C10: the throttle and brake returned by a blending tick are those of Pure
\* Pursuit's command of the same tick, whatever the weight and whatever
\* Stanley's target speed
C10_BlendingSpeedControl ==
    (HybridTicked("blending") /\ Commanded) =>
        /\ control.throttle = InnerPurePursuit.throttle
        /\ control.brake = InnerPurePursuit.brake

\* C10 witness: a blending tick weighted towards Stanley whose throttle and
\* brake are Pure Pursuit's although Stanley's differ
C10_Witness ==
    /\ HybridTicked("blending") /\ Commanded
    /\ hybrid.pure_pursuit.target_speed # hybrid.stanley.target_speed
    /\ hybrid.blend_weight > 700
    /\ InnerStanley.throttle # InnerPurePursuit.throttle
    /\ control.throttle = InnerPurePursuit.throttle
    /\ control.brake = InnerPurePursuit.brake

(***************************************************************************)
(* SpecHistory: one hybrid controller ticking while the vehicle moves and  *)
(* changes speed and while its mode and speed_adaptive attributes are      *)
(* reassigned between ticks                                                *)
(***************************************************************************)
\* defaults of HybridController.__init__: pp_lookahead 3.0, stanley_k 0.5
DefaultPPLookahead == 30

DefaultStanleyK == 5

\* speeds on either side of the adaptive branch's 8 m/s and of the gain steps
HistorySpeeds == {0, 7, 8, MaxSpeed - 1}

\* the vehicle at the first or at the second waypoint of the lane
HistoryVehicles == {Vehicle(x, 0, 0, s) : x \in {0, Spacing}, s \in HistorySpeeds}

\* lanes whose curvature at the first waypoint lies inside the lower half of
\* the default band, inside its upper half and above it
HistoryPaths == {Ramp(MaxLen, o) : o \in {MaxOffset - 3, MaxOffset - 1, MaxOffset}}

InitHistory ==
    InitOver(HistoryPaths,
             HistoryVehicles,
             {PurePursuitController(DefaultPPLookahead)},
             {StanleyController(10)},
             {HybridController(DefaultPPLookahead, DefaultStanleyK,
                               DefaultThreshold, DefaultBlendZone, m) : m \in Modes})

\* the simulation advances: the command has been applied and the vehicle is
\* at another pose and speed
Drive ==
    /\ vehicle' \in HistoryVehicles
    /\ vehicle' # vehicle
    /\ control' = NoControl
    /\ UNCHANGED <<waypoints, pure_pursuit, stanley, hybrid, probe>>

\* controller.mode = m, assigned between ticks
SetMode ==
    /\ \E m \in Modes : m # hybrid.mode /\ hybrid' = [hybrid EXCEPT !.mode = m]
    /\ control' = NoControl
    /\ UNCHANGED <<waypoints, vehicle, pure_pursuit, stanley, probe>>

\* controller.speed_adaptive = b, assigned between ticks
SetSpeedAdaptive ==
    /\ hybrid' = [hybrid EXCEPT !.speed_adaptive = ~hybrid.speed_adaptive]
    /\ control' = NoControl
    /\ UNCHANGED <<waypoints, vehicle, pure_pursuit, stanley, probe>>

NextHistory == HybridStep \/ Drive \/ SetMode \/ SetSpeedAdaptive

SpecHistory == InitHistory /\ [][NextHistory]_vars

\* an arbitrator just constructed with the threshold, blend zone and mode of
\* the one that has a history
FreshArbitrator ==
    HybridController(DefaultPPLookahead, DefaultStanleyK,
                     hybrid.curvature_threshold, hybrid.blend_zone, hybrid.mode)

\* C11: whatever ticks, mode changes and parameter changes came before, a
\* switching or adaptive tick selects the tracker that a newly constructed
\* arbitrator with the same threshold and blend zone selects on the same
\* curvature and speed
C11_HistoryFree ==
    (control.by = "hybrid" /\ Commanded /\ hybrid.mode \in {"switching", "adaptive"})
        => hybrid.active_controller =
              HybridRunStep(FreshArbitrator, vehicle, waypoints).h.active_controller

\* C11 witness: a switching tick selected Pure Pursuit in a controller whose
\* blend weight 1.0 was left by an earlier adaptive tick that selected Stanley
C11_Witness ==
    /\ HybridTicked("switching") /\ Commanded
    /\ hybrid.active_controller = "Pure Pursuit"
    /\ hybrid.blend_weight = 1000
    /\ FreshArbitrator.blend_weight # hybrid.blend_weight

\* C12: with speed_adaptive set, a tick at speed s leaves the lookahead
\* min(2.0 + 0.3 s, 6.0), which lies in [2.0, 6.0] and is 6.0 from s = 40/3
\* on, and the Stanley gain 1.0 for s < 5, 0.7 for 5 <= s < 10, 0.5 for s >= 10
C12_Scheduled ==
    (control.by = "hybrid" /\ hybrid.speed_adaptive) =>
        LET s == vehicle.speed
            lookahead == hybrid.pure_pursuit.lookahead_distance
            gain == hybrid.stanley.k
        IN  /\ lookahead = (IF 20 + 3 * s < 60 THEN 20 + 3 * s ELSE 60)
            /\ lookahead >= 20 /\ lookahead <= 60
            /\ (3 * s >= 40 => lookahead = 60)
            /\ (s < 5 => gain = 10)
            /\ (s >= 5 /\ s < 10 => gain = 7)
            /\ (s >= 10 => gain = 5)

\* C12 witness: a tick at exactly 10 m/s scheduled the gain 0.5 and the
\* lookahead 5.0
C12_Witness ==
    /\ control.by = "hybrid" /\ Commanded /\ hybrid.speed_adaptive
    /\ vehicle.speed = 10
    /\ hybrid.stanley.k = 5
    /\ hybrid.pure_pursuit.lookahead_distance = 50

\* C13 as stated: after run_step the lookahead and the gain of the inner
\* trackers are their construction-time values, and a tick run with
\* speed_adaptive off returns what a newly constructed controller with
\* speed_adaptive off returns
C13_ConfiguredRestored ==
    control.by = "hybrid" =>
        /\ hybrid.pure_pursuit.lookahead_distance = DefaultPPLookahead
        /\ hybrid.stanley.k = DefaultStanleyK
        /\ (~hybrid.speed_adaptive =>
               control = Returned("hybrid",
                            HybridRunStep([FreshArbitrator EXCEPT !.speed_adaptive = FALSE],
                                          vehicle, waypoints).control))

\* what run_step does: the scheduled lookahead and gain stay in the inner
\* trackers, and a tick run with speed_adaptive off steers with whatever the
\* last scheduling tick left there
C13_ScheduledValuesPersist ==
    (control.by = "hybrid" /\ ~hybrid.speed_adaptive) =>
        /\ \E s \in Speeds \cup {-1} :
              /\ hybrid.pure_pursuit.lookahead_distance =
                    (IF s < 0 THEN DefaultPPLookahead ELSE adaptive_lookahead(s))
              /\ hybrid.stanley.k =
                    (IF s < 0 THEN DefaultStanleyK ELSE adaptive_stanley_gain(s))
        /\ control = Returned("hybrid", HybridRunStep(hybrid, vehicle, waypoints).control)

(***************************************************************************)
(* SpecDegenerate: the three controllers on short paths with coincident,   *)
(* collinear and back-tracking waypoints, at rest and moving               *)
(***************************************************************************)
\* longest degenerate path
MaxDegenerate == 4

\* waypoints on the lane one spacing apart, and one half a spacing beside it
DegeneratePoints ==
    {[x |-> 0, y |-> 0, yaw |-> 0], [x |-> Spacing, y |-> 0, yaw |-> 0],
     [x |-> 2 * Spacing, y |-> 0, yaw |-> 0], [x |-> Spacing, y |-> Spacing \div 2, yaw |-> 0]}

\* every non-empty sequence of up to MaxDegenerate of these waypoints
DegeneratePaths == UNION {[1..n -> DegeneratePoints] : n \in 1..MaxDegenerate}

\* the vehicle on the first lane waypoint or 0.1 m beside it, at rest or at 5 m/s
DegenerateVehicles ==
    {Vehicle(0, y, yaw, s) : y \in {0, -1}, yaw \in Yaws, s \in {0, 5}}

InitDegenerate ==
    InitOver(DegeneratePaths,
             DegenerateVehicles,
             {PurePursuitController(DefaultPPLookahead)},
             {StanleyController(10)},
             {HybridController(DefaultPPLookahead, DefaultStanleyK,
                               DefaultThreshold, DefaultBlendZone, m) : m \in Modes})

SpecDegenerate == InitDegenerate /\ [][Next]_vars

\* the turning-per-distance estimate over a window of 3 or more waypoints:
\* summed absolute wrapped heading changes over the summed segment lengths,
\* the last segment left out; 0 when that length is 0.1 m or less
TurningPerDistance(points) ==
    LET arc == SumDistances(points, Len(points) - 2)
        turning == SumHeadingChanges(points, Len(points) - 2)
    IN  IF arc > 10 THEN Quot(100 * turning, arc) ELSE 0

\* the waypoints at indices first .. last (0-based), none when last < first
Window(wps, first, last) == SubSeq(wps, first + 1, last + 1)

\* C14 as stated: the window of a tick is the waypoints at indices
\* nearest .. min(nearest + 10, len) - 1, the last waypoint of the path
\* included; the estimate is 0 with fewer than 3 of them and the
\* turning-per-distance of the window with 3 or more
C14_WindowReachesPathEnd ==
    (control.by = "hybrid" /\ Commanded) =>
        LET n == NearestIndex(Location(vehicle), waypoints)
            window == Window(waypoints, n, Min2(n + LookaheadPoints, Len(waypoints)) - 1)
        IN  hybrid.current_curvature =
               (IF Len(window) < 3 THEN 0 ELSE TurningPerDistance(window))

\* what estimate_path_curvature does: the window is the waypoints at indices
\* nearest .. min(nearest + 10, len - 1) - 1, so a path that ends inside the
\* horizon loses its last waypoint, and the estimate is 0 unless the path
\* holds 4 or more waypoints from the nearest on
C14_WindowStopsBeforePathEnd ==
    (control.by = "hybrid" /\ Commanded) =>
        LET n == NearestIndex(Location(vehicle), waypoints)
            window == Window(waypoints, n, Min2(n + LookaheadPoints, Len(waypoints) - 1) - 1)
        IN  hybrid.current_curvature =
               (IF Len(waypoints) - n < 4 THEN 0 ELSE TurningPerDistance(window))

\* the window estimate_path_curvature takes in a tick
TickWindow ==
    LET n == NearestIndex(Location(vehicle), waypoints)
    IN  Window(waypoints, n, Min2(n + LookaheadPoints, Len(waypoints) - 1) - 1)

\* the heading of the segment from points[j] to points[j + 1] (1-based)
HeadingOf(points, j) ==
    ATan2Milli(points[j + 1].y - points[j].y, points[j + 1].x - points[j].x)

\* the length of that segment, in centimetres
LengthOf(points, j) ==
    SegmentLengthCm(points[j + 1].x - points[j].x, points[j + 1].y - points[j].y)

RECURSIVE TurningUpTo(_, _)
\* the absolute wrapped heading changes between the first j + 1 segments, summed
TurningUpTo(points, j) ==
    IF j <= 0 THEN 0
    ELSE TurningUpTo(points, j - 1)
         + Abs(WrapAngle(HeadingOf(points, j + 1) - HeadingOf(points, j)))

RECURSIVE ArcUpTo(_, _)
\* the lengths of the first j segments, summed
ArcUpTo(points, j) ==
    IF j <= 0 THEN 0 ELSE ArcUpTo(points, j - 1) + LengthOf(points, j)

\* every step of the window is the same non-zero displacement
EvenlySpacedCollinear(points) ==
    /\ points[2] # points[1]
    /\ \A j \in 1..(Len(points) - 1) :
           /\ points[j + 1].x - points[j].x = points[2].x - points[1].x
           /\ points[j + 1].y - points[j].y = points[2].y - points[1].y

\* C15: over a window of 3 or more waypoints the estimate is 0 when the
\* waypoints are collinear, evenly spaced and in one direction, 0 when the
\* arc length (the segment lengths without the last segment) is 0.1 m or
\* less, and otherwise the summed absolute wrapped heading changes divided by
\* that arc length; it is never negative
C15_TurningPerDistance ==
    (control.by = "hybrid" /\ Commanded /\ Len(TickWindow) >= 3) =>
        LET points == TickWindow
            arc == ArcUpTo(points, Len(points) - 2)
            turning == TurningUpTo(points, Len(points) - 2)
        IN  /\ (EvenlySpacedCollinear(points) => hybrid.current_curvature = 0)
            /\ (arc <= 10 => hybrid.current_curvature = 0)
            /\ (arc > 10 => hybrid.current_curvature = Quot(100 * turning, arc))
            /\ hybrid.current_curvature >= 0

\* C15 witness: a window that starts with two coincident waypoints and then
\* turns: the arc length is 0, the heading changes, the estimate is 0
C15_Witness ==
    /\ control.by = "hybrid" /\ Commanded /\ Len(TickWindow) >= 3
    /\ ArcUpTo(TickWindow, Len(TickWindow) - 2) <= 10
    /\ HeadingOf(TickWindow, 2) # HeadingOf(TickWindow, 1)
    /\ hybrid.current_curvature = 0

\* the point p seen from the vehicle: x ahead along the heading, y across it
LocalFrame(v, p) ==
    LET dx == p.x - v.x
        dy == p.y - v.y
    IN  CASE v.yaw = 0 -> [x |-> dx, y |-> dy]
          [] v.yaw = 90 -> [x |-> dy, y |-> -dx]
          [] v.yaw = 180 -> [x |-> -dx, y |-> -dy]
          [] v.yaw = -90 -> [x |-> -dy, y |-> dx]

\* the lookahead target of the stand-alone Pure Pursuit, in the vehicle frame
LocalTarget ==
    LocalFrame(vehicle, find_lookahead_point(Location(vehicle), waypoints,
                                             pure_pursuit.lookahead_distance).target)

\* C16: Pure Pursuit's steer is exactly 0 whenever the lookahead target lies
\* on the vehicle's heading axis (local_y = 0, ahead or behind) or within the
\* degenerate radius (local_x^2 + local_y^2 <= 0.01)
C16_ZeroSteerOnAxis ==
    (control.by = "pure_pursuit" /\ Commanded) =>
        ((LocalTarget.y = 0 \/ LocalTarget.x * LocalTarget.x + LocalTarget.y * LocalTarget.y <= 1)
            => control.steer = 0)

\* C16 witness: the target is 0.1 m beside the vehicle, off the heading axis
\* and inside the degenerate radius, and the steer is 0
C16_Witness ==
    /\ control.by = "pure_pursuit" /\ Commanded
    /\ LocalTarget.y # 0
    /\ LocalTarget.x * LocalTarget.x + LocalTarget.y * LocalTarget.y <= 1
    /\ control.steer = 0

\* the command last returned is Stanley's: the stand-alone controller's, or
\* the hybrid controller's after a switching or adaptive tick chose Stanley
StanleyReturned ==
    /\ Commanded
    /\ \/ control.by = "stanley"
       \/ /\ control.by = "hybrid" /\ hybrid.mode # "blending"
          /\ hybrid.active_controller = "Stanley"

\* the nearest waypoint lies on the vehicle's heading axis
NoCrossTrackError ==
    LocalFrame(vehicle, At(waypoints, NearestIndex(Location(vehicle), waypoints))).y = 0

\* the path heads where the vehicle heads: from the nearest waypoint to the
\* next one (heading 0 when the two coincide), or, on the last waypoint,
\* the waypoint's own heading
NoHeadingError ==
    LET n == NearestIndex(Location(vehicle), waypoints)
        closest == At(waypoints, n)
    IN  IF n + 1 < Len(waypoints)
        THEN LET step == LocalFrame([x |-> closest.x, y |-> closest.y, yaw |-> vehicle.yaw],
                                    At(waypoints, n + 1))
             IN  \/ (step.y = 0 /\ step.x > 0)
                 \/ (step.x = 0 /\ step.y = 0 /\ vehicle.yaw = 0)
        ELSE closest.yaw = vehicle.yaw

\* C17: Stanley's steer is exactly 0 whenever the cross-track error and the
\* heading error are both 0, at every gain and speed, speed 0 included
C17_ZeroSteerOnPath ==
    (StanleyReturned /\ NoCrossTrackError /\ NoHeadingError) => control.steer = 0

\* C17 witness: at rest, with the nearest waypoint straight ahead and the
\* path running on along the heading, Stanley steers 0
C17_Witness ==
    /\ StanleyReturned /\ NoCrossTrackError /\ NoHeadingError
    /\ vehicle.speed = 0
    /\ At(waypoints, NearestIndex(Location(vehicle), waypoints)) # [x |-> vehicle.x, y |-> vehicle.y, yaw |-> 0]
    /\ control.steer = 0

\* the snapshot get_controller_info gives after the tick
Telemetry == get_controller_info(hybrid)

\* the commands of the two trackers in the tick, run with the lookahead and
\* the gain the snapshot reports
PurePursuitAsReported ==
    PurePursuitRunStep([hybrid.pure_pursuit EXCEPT !.lookahead_distance = Telemetry.pp_lookahead],
                       vehicle, waypoints)

StanleyAsReported ==
    StanleyRunStep([hybrid.stanley EXCEPT !.k = Telemetry.stanley_k], vehicle, waypoints)

\* C18: after a hybrid tick that returned a command, in every mode, the
\* snapshot holds the curvature estimated in the tick, the lookahead and gain
\* the trackers used in it (the scheduled ones when speed_adaptive is set),
\* and the label of the tracker whose command was returned, or in blending
\* mode the label of the weight that blended the two steers
C18_Telemetry ==
    (control.by = "hybrid" /\ Commanded) =>
        /\ Telemetry.curvature = TickCurvature
        /\ (hybrid.speed_adaptive =>
               /\ Telemetry.pp_lookahead = Min2(20 + 3 * vehicle.speed, 60)
               /\ Telemetry.stanley_k =
                     (IF vehicle.speed < 5 THEN 10 ELSE IF vehicle.speed < 10 THEN 7 ELSE 5))
        /\ IF hybrid.mode = "blending"
           THEN /\ Telemetry.active_controller =
                      (IF Telemetry.blend_weight < 300 THEN "Pure Pursuit (blended)"
                       ELSE IF Telemetry.blend_weight > 700 THEN "Stanley (blended)"
                       ELSE "Hybrid (50/50)")
                /\ control.steer =
                      Max2(-1000, Min2(1000,
                          Quot((1000 - Telemetry.blend_weight) * PurePursuitAsReported.steer
                               + Telemetry.blend_weight * StanleyAsReported.steer, 1000)))
           ELSE \/ /\ Telemetry.active_controller = "Pure Pursuit"
                   /\ control = Returned("hybrid", PurePursuitAsReported)
                \/ /\ Telemetry.active_controller = "Stanley"
                   /\ control = Returned("hybrid", StanleyAsReported)

\* C18 witness: a blending tick at a weight of exactly 0.7, labelled
\* "Hybrid (50/50)", with the scheduled lookahead 6.0 in the snapshot
C18_Witness ==
    /\ HybridTicked("blending") /\ Commanded /\ hybrid.speed_adaptive
    /\ Telemetry.blend_weight = 700
    /\ Telemetry.active_controller = "Hybrid (50/50)"
    /\ Telemetry.pp_lookahead = 60
    /\ Telemetry.pp_lookahead # DefaultPPLookahead

\* C19: in every state of a hybrid controller with blend_zone > 0, after
\* construction and after any ticks in any mix of modes and speeds, the
\* recorded blend weight is a number in [0, 1]
C19_WeightInRange ==
    hybrid.blend_zone > 0 =>
        /\ ~hybrid.blend_weight_nan
        /\ hybrid.blend_weight >= 0 /\ hybrid.blend_weight <= 1000

\* C19 witness: a switching tick of a controller that still holds a weight
\* strictly inside (0, 1) recorded by an earlier blending tick
C19_Witness ==
    /\ HybridTicked("switching") /\ Commanded /\ hybrid.blend_zone > 0
    /\ hybrid.blend_weight > 0 /\ hybrid.blend_weight < 1000
    /\ hybrid.blend_weight # FreshArbitrator.blend_weight

\* C20: on every non-empty path, paths of one and two waypoints and paths
\* with coincident waypoints included, at every pose and every speed from 0
\* up, run_step of Pure Pursuit, of Stanley and of the hybrid controller in
\* every mode (blend_zone > 0) returns a command and never an error
C20_NoStall ==
    (control.by # "none" /\ Len(waypoints) > 0 /\ hybrid.blend_zone > 0)
        => (control.err = "none" /\ ~control.nan)

\* C20 witness: the blending mode, which runs the estimator and both
\* trackers, returned a command at rest on a path of one waypoint
C20_Witness ==
    /\ HybridTicked("blending") /\ Commanded
    /\ Len(waypoints) = 1
    /\ vehicle.speed = 0


(***************************************************************************)
(* SpecHeading: Stanley on short paths whose waypoints store a heading     *)
(* that differs from the direction to the next waypoint, with the vehicle  *)
(* heading along, across and against the path                              *)
(***************************************************************************)
\* longest path of SpecHeading
MaxHeading == 3

\* waypoints at the origin, one spacing ahead and one spacing to the side,
\* each stored with heading 0 or 90 degrees
HeadingPoints ==
    {[x |-> p[1], y |-> p[2], yaw |-> w] :
        p \in {<<0, 0>>, <<Spacing, 0>>, <<0, Spacing>>}, w \in {0, 90}}

HeadingPaths == UNION {[1..n -> HeadingPoints] : n \in 1..MaxHeading}

HeadingVehicles == {Vehicle(0, 0, yaw, s) : yaw \in Yaws, s \in {0, 5}}

InitHeading ==
    InitOver(HeadingPaths,
             HeadingVehicles,
             {PurePursuitController(DefaultPPLookahead)},
             {StanleyController(DefaultStanleyK)},
             {HybridController(DefaultPPLookahead, DefaultStanleyK,
                               DefaultThreshold, DefaultBlendZone, "adaptive")})

NextHeading == StanleyStep \/ ComputeHeadingErrorCall

SpecHeading == InitHeading /\ [][NextHeading]_vars

\* the path heading of the claim: the direction from the nearest waypoint to
\* the one after it, or the nearest waypoint's stored heading on the last one
PathHeading ==
    LET n == NearestIndex(Location(vehicle), waypoints)
        nearest == At(waypoints, n)
    IN  IF n + 1 < Len(waypoints)
        THEN ATan2Milli(At(waypoints, n + 1).y - nearest.y, At(waypoints, n + 1).x - nearest.x)
        ELSE Radians(nearest.yaw)

\* the heading error agrees with path heading minus vehicle heading up to
\* whole turns
SameDirection(e) == (e - (PathHeading - Radians(vehicle.yaw))) % (2 * PiMilli) = 0

HeadingErrorComputed == probe.of = "compute_heading_error" /\ Len(waypoints) > 0

\* C21 as stated: the heading error is path heading minus vehicle heading
\* brought into (-pi, pi], the path heading being the direction to the next
\* waypoint when there is one and the stored heading on the last waypoint
C21_WrapHalfOpen ==
    HeadingErrorComputed =>
        LET e == probe.result.heading_error
        IN  /\ probe.err = "none"
            /\ SameDirection(e)
            /\ e > -PiMilli /\ e <= PiMilli

\* C21 amended: the same path heading, and the heading error is path heading
\* minus vehicle heading brought into [-pi, pi], both ends included: a
\* difference of exactly -pi stays -pi and one of exactly pi stays pi
C21_WrapClosed ==
    HeadingErrorComputed =>
        LET e == probe.result.heading_error
            difference == PathHeading - Radians(vehicle.yaw)
        IN  /\ probe.err = "none"
            /\ SameDirection(e)
            /\ e >= -PiMilli /\ e <= PiMilli
            /\ (difference = -PiMilli => e = -PiMilli)
            /\ (difference = PiMilli => e = PiMilli)

\* C21 witness: the vehicle heads against a path that runs on from a nearest
\* waypoint stored with another heading; the heading error is -pi
C21_Witness ==
    /\ HeadingErrorComputed
    /\ probe.result.closest_idx + 1 < Len(waypoints)
    /\ At(waypoints, probe.result.closest_idx).yaw = 90
    /\ PathHeading = 0
    /\ probe.result.heading_error = -PiMilli

\* Pure Pursuit's and Stanley's commands on the current vehicle and path with
\* the lookahead and the gain scheduled for speed s
PurePursuitScheduledAt(s) ==
    PurePursuitRunStep([hybrid.pure_pursuit EXCEPT
                            !.lookahead_distance = (IF 20 + 3 * s < 60 THEN 20 + 3 * s ELSE 60)],
                       vehicle, waypoints)

StanleyScheduledAt(s) ==
    StanleyRunStep([hybrid.stanley EXCEPT
                        !.k = (IF s < 5 THEN 10 ELSE IF s < 10 THEN 7 ELSE 5)],
                   vehicle, waypoints)

\* C22: with speed_adaptive set, a tick at speed s records the curvature
\* estimated in it and returns a command computed from the two trackers run
\* with the lookahead and gain scheduled from s in that tick (selected by the
\* mode's rule on that curvature, or blended with the weight of the tick),
\* whatever values earlier ticks left in the trackers
C22_ScheduledBeforeTrackers ==
    (control.by = "hybrid" /\ Commanded /\ hybrid.speed_adaptive) =>
        LET s == vehicle.speed
            pp == Returned("hybrid", PurePursuitScheduledAt(s))
            st == Returned("hybrid", StanleyScheduledAt(s))
            c == TickCurvature
        IN  /\ hybrid.current_curvature = c
            /\ CASE hybrid.mode = "switching" ->
                      control = (IF c > hybrid.curvature_threshold THEN st ELSE pp)
                 [] hybrid.mode = "blending" ->
                      /\ control.steer =
                            Max2(-1000, Min2(1000,
                                Quot((1000 - hybrid.blend_weight) * pp.steer
                                     + hybrid.blend_weight * st.steer, 1000)))
                      /\ control.throttle = pp.throttle /\ control.brake = pp.brake
                 [] OTHER ->
                      control = (IF \/ c > hybrid.curvature_threshold + hybrid.blend_zone
                                    \/ (c > hybrid.curvature_threshold /\ s < 8)
                                 THEN st ELSE pp)

\* C22 witness: a switching tick of a controller that an earlier tick in
\* another mode has used (its blend weight is no longer the initial 0.5),
\* whose steer is the one of this tick's schedule and differs from the steer
\* under the schedule of every other speed and under the constructed values
C22_Witness ==
    /\ HybridTicked("switching") /\ Commanded /\ hybrid.speed_adaptive
    /\ hybrid.blend_weight # 500
    /\ control.steer = PurePursuitScheduledAt(vehicle.speed).steer
    /\ \A s \in HistorySpeeds \ {vehicle.speed} :
           control.steer # PurePursuitScheduledAt(s).steer
    /\ control.steer #
          PurePursuitRunStep([hybrid.pure_pursuit EXCEPT !.lookahead_distance = DefaultPPLookahead],
                             vehicle, waypoints).steer

\* C23: on every non-empty path and from every vehicle position the nearest
\* scan of the lookahead search, Stanley's find_closest_waypoint and the
\* nearest scan of the curvature estimator give the same index, the first
\* one at the least distance, so that within a tick the curvature window, the
\* lookahead search and the cross-track error start from the same waypoint
C23_ScansAgree ==
    (control.by = "hybrid" /\ Len(waypoints) > 0) =>
        LET loc == Location(vehicle)
            n == NearestIndex(loc, waypoints)
        IN  /\ PPClosestIdx(loc, waypoints) = n
            /\ find_closest_waypoint(loc, waypoints).closest_idx = n
            /\ HybridClosestIdx(loc, waypoints) = n
            /\ find_closest_waypoint(loc, waypoints).closest_waypoint = At(waypoints, n)

\* C23 witness: a blending tick, which runs the three scans, on a path whose
\* nearest waypoint is not the first and is met again later at the same
\* distance
C23_Witness ==
    /\ HybridTicked("blending") /\ Commanded
    /\ LET loc == Location(vehicle)
           n == HybridClosestIdx(loc, waypoints)
       IN  /\ n > 0
           /\ \E j \in (n + 1)..(Len(waypoints) - 1) :
                  Dist2(loc, At(waypoints, j)) = Dist2(loc, At(waypoints, n))

\* the lookahead distance of the Pure Pursuit tracker behind the last command
LookaheadUsed ==
    IF control.by = "hybrid" THEN hybrid.pure_pursuit.lookahead_distance
    ELSE pure_pursuit.lookahead_distance

C25_SwitchingKeepsWeight ==
    [][(hybrid.mode = "switching" /\ control'.by = "hybrid") =>
          /\ hybrid'.blend_weight = hybrid.blend_weight
          /\ hybrid'.blend_weight_nan = hybrid.blend_weight_nan
          /\ get_controller_info(hybrid').blend_weight = get_controller_info(hybrid).blend_weight
          /\ hybrid'.active_controller \in {"Stanley", "Pure Pursuit"}
          /\ hybrid' = [hybrid EXCEPT
                           !.active_controller = hybrid'.active_controller,
                           !.current_curvature = hybrid'.current_curvature,
                           !.pure_pursuit.lookahead_distance =
                               hybrid'.pure_pursuit.lookahead_distance,
                           !.stanley.k = hybrid'.stanley.k]]_vars

\* C25 witness: a switching tick selected Stanley in a controller whose
\* blend weight is still the 0.0 recorded by an earlier adaptive tick that
\* selected Pure Pursuit
C25_Witness ==
    /\ HybridTicked("switching") /\ Commanded
    /\ hybrid.active_controller = "Stanley"
    /\ hybrid.blend_weight = 0

(***************************************************************************)
(* SpecZones: the controllers of Spec, the hybrid controller also with     *)
(* blend_zone = 0 and with curvature_threshold = 0                         *)
(***************************************************************************)
\* blend zones: none and the default
ZoneChoices == {0, DefaultBlendZone}

\* the thresholds of Spec and the threshold 0.0, which equals the estimate of
\* a straight path and of a path too short to estimate
ZoneThresholds == Thresholds \cup {0}

InitZones ==
    InitOver(RampPaths,
             {Vehicle(0, 0, 0, s) : s \in Speeds},
             {PurePursuitController(DefaultPPLookahead)},
             {StanleyController(10)},
             {HybridController(DefaultPPLookahead, DefaultStanleyK, t, z, m) :
                  t \in ZoneThresholds, z \in ZoneChoices, m \in Modes})

SpecZones == InitZones /\ [][Next]_vars

\* the tracker a tick of the current controller on the current vehicle and
\* path selects when its mode is m
SelectedIn(m) ==
    HybridRunStep([hybrid EXCEPT !.mode = m], vehicle, waypoints).h.active_controller

\* C26: on the same curvature, speed, threshold and blend zone (0 included),
\* whenever adaptive mode selects Stanley so does switching mode; the two
\* modes select the same tracker at every speed below 8; they differ only at
\* speed >= 8 with threshold < curvature <= threshold + blend zone, where
\* adaptive selects Pure Pursuit
C26_AdaptiveWithinSwitching ==
    control.by = "hybrid" =>
        LET c == TickCurvature
            s == vehicle.speed
        IN  /\ (hybrid.mode \in {"adaptive", "switching"}
                   => hybrid.active_controller = SelectedIn(hybrid.mode))
            /\ (SelectedIn("adaptive") = "Stanley" => SelectedIn("switching") = "Stanley")
            /\ (s < 8 => SelectedIn("adaptive") = SelectedIn("switching"))
            /\ (SelectedIn("adaptive") # SelectedIn("switching") =>
                   /\ s >= 8
                   /\ hybrid.curvature_threshold < c
                   /\ c <= hybrid.curvature_threshold + hybrid.blend_zone
                   /\ SelectedIn("adaptive") = "Pure Pursuit")

\* C26 witness: an adaptive tick at 8 m/s or more selected Pure Pursuit on a
\* curvature for which switching mode selects Stanley
C26_Witness ==
    /\ HybridTicked("adaptive") /\ Commanded
    /\ vehicle.speed >= 8
    /\ hybrid.active_controller = "Pure Pursuit"
    /\ SelectedIn("switching") = "Stanley"

\* C26 on a controller without a blend zone: adaptive and switching select
\* alike at every speed
C26_NoZoneNoDifference ==
    (control.by = "hybrid" /\ hybrid.blend_zone = 0)
        => SelectedIn("adaptive") = SelectedIn("switching")

\* C30 as stated: the blend weight of a blending tick is defined and lies in
\* [0, 1] for every curvature, speed and blend zone >= 0, the blend zone 0
\* with the curvature equal to the threshold included
C30_WeightDefined ==
    (HybridTicked("blending") /\ Len(waypoints) > 0) =>
        /\ control.err = "none"
        /\ ~hybrid.blend_weight_nan
        /\ ~control.nan
        /\ hybrid.blend_weight >= 0 /\ hybrid.blend_weight <= 1000

\* what compute_blend_weight does: with blend_zone = 0 and the curvature
\* equal to the threshold the ramp is 0 / 0, which raises ZeroDivisionError
\* when the curvature is the literal 0.0 of a short path and gives nan when
\* it is a numpy value; the nan becomes the recorded weight and the steer of
\* the command, labelled "Hybrid (50/50)".  Everywhere else the weight is
\* defined and within [0, 1]
C30_ZeroZoneDividesByZero ==
    (HybridTicked("blending") /\ Len(waypoints) > 0) =>
        LET estimate == estimate_path_curvature(Location(vehicle), waypoints)
        IN  IF hybrid.blend_zone = 0 /\ estimate.value = hybrid.curvature_threshold
            THEN IF estimate.numpy
                 THEN /\ control.err = "none"
                      /\ hybrid.blend_weight_nan /\ control.nan
                      /\ hybrid.active_controller = "Hybrid (50/50)"
                 ELSE /\ control.err = "ZeroDivisionError"
                      /\ hybrid.blend_weight = 500
            ELSE /\ control.err = "none"
                 /\ ~hybrid.blend_weight_nan /\ ~control.nan
                 /\ hybrid.blend_weight >= 0 /\ hybrid.blend_weight <= 1000

(***************************************************************************)
(* SpecCallers: hybrid controllers constructed with different lookaheads   *)
(* and gains and with recognised and unrecognised modes, ticking while the *)
(* vehicle moves and while the caller passes another path, the empty path  *)
(* included                                                                *)
(***************************************************************************)
\* Stanley gains given to the constructor: the default 0.5 and 1.0
CallerGains == {DefaultStanleyK, 10}

\* the three modes and two values run_step does not name
AnyModes == Modes \cup {"Adaptive", ""}

CallerPaths == HistoryPaths \cup {<<>>}

InitCallers ==
    InitOver(CallerPaths,
             HistoryVehicles,
             {PurePursuitController(DefaultPPLookahead)},
             {StanleyController(10)},
             {HybridController(l, k, DefaultThreshold, DefaultBlendZone, m) :
                  l \in LookaheadDistances, k \in CallerGains, m \in AnyModes})

\* the next run_step is given another list of waypoints
PassPath ==
    /\ waypoints' \in CallerPaths
    /\ waypoints' # waypoints
    /\ control' = NoControl
    /\ UNCHANGED <<vehicle, pure_pursuit, stanley, hybrid, probe>>

NextCallers == HybridStep \/ Drive \/ PassPath

SpecCallers == InitCallers /\ [][NextCallers]_vars

FreshAdaptive ==
    HybridController(DefaultPPLookahead, DefaultStanleyK,
                     hybrid.curvature_threshold, hybrid.blend_zone, "adaptive")

\* C28: a controller whose mode is neither 'switching' nor 'blending', an
\* unrecognised value included, is constructed without error and in every
\* tick returns the command and records the label, weight, curvature,
\* lookahead and gain of a controller in adaptive mode; on a non-empty path
\* the tick raises no error
C28_AdaptiveIsCatchAll ==
    (control.by = "hybrid" /\ hybrid.mode \notin {"switching", "blending"}) =>
        LET r == HybridRunStep(FreshAdaptive, vehicle, waypoints)
        IN  /\ control = Returned("hybrid", r.control)
            /\ hybrid = [r.h EXCEPT !.mode = hybrid.mode]
            /\ get_controller_info(hybrid) = get_controller_info(r.h)
            /\ (Len(waypoints) > 0 => control.err = "none")

\* C28 witness: a controller whose mode is the empty string ticked at low
\* speed on a moderate curve and selected Stanley with weight 1.0
C28_Witness ==
    /\ control.by = "hybrid" /\ Commanded
    /\ hybrid.mode = ""
    /\ vehicle.speed < 8
    /\ TickCurvature <= hybrid.curvature_threshold + hybrid.blend_zone
    /\ hybrid.active_controller = "Stanley" /\ hybrid.blend_weight = 1000

\* C29: run_step on an empty path: the curvature estimator returns 0.0
\* without failing; the error comes from the tracker called afterwards (the
\* lookahead search's waypoints[-1]); by then the controller holds curvature
\* 0, the lookahead and gain scheduled for the current speed, in switching
\* and adaptive mode the label of the selected tracker and in adaptive mode
\* its weight: the writes of the failed tick stay
C29_FailedTickKeepsWrites ==
    (waypoints = <<>> /\ control.by = "hybrid") =>
        /\ estimate_path_curvature(Location(vehicle), waypoints) = [value |-> 0, numpy |-> FALSE]
        /\ control.err = "IndexError" /\ control.raised_in = "waypoints[-1]"
        /\ hybrid.current_curvature = 0
        /\ hybrid.pure_pursuit.lookahead_distance = Min2(20 + 3 * vehicle.speed, 60)
        /\ hybrid.stanley.k =
              (IF vehicle.speed < 5 THEN 10 ELSE IF vehicle.speed < 10 THEN 7 ELSE 5)
        /\ (hybrid.mode # "blending" => hybrid.active_controller = "Pure Pursuit")
        /\ (hybrid.mode \notin {"switching", "blending"} => hybrid.blend_weight = 0)

\* C29 witness: a blending tick failed on an empty path in a controller that
\* still holds the weight of an earlier blending tick on a curve: the
\* curvature recorded then has been replaced by 0, and the lookahead is the
\* one scheduled in the failed tick
C29_Witness ==
    /\ HybridTicked("blending") /\ waypoints = <<>>
    /\ control.err = "IndexError"
    /\ hybrid.blend_weight > 0 /\ hybrid.blend_weight # 500
    /\ hybrid.active_controller = "Stanley (blended)"
    /\ hybrid.current_curvature = 0
    /\ hybrid.pure_pursuit.lookahead_distance = 60
=============================================================================
